---- MODULE Spec2Model ----
(***************************************************************************)
(* Users / Orders CRUD module (app/): two in-memory dict stores, the id     *)
(* allocator, the request schemas, the pagination dependency and the        *)
(* route handlers of routers/users.py and routers/orders.py.                *)
(*                                                                          *)
(* A JSON value is a tuple: <<>> is null (Python None) and <<v>> is the     *)
(* value v.  A payload or a stored record is a function from field names    *)
(* to JSON values.  A store (a Python dict, which iterates in insertion     *)
(* order) is a sequence of entries [key |-> k, val |-> record].               *)
(* Totals are counted in cents so that they are integers.                   *)
(*                                                                          *)
(* The students API (myapi.py) is a second application with one dict store, *)
(* students; its routes are the actions of SpecStudents.                    *)
(*                                                                          *)
(* SpecConcurrent runs the writing routes of app/ with several requests in  *)
(* flight: inflight holds each request from its arrival to its response.    *)
(* The handlers are coroutines (async def) without an await in their body,  *)
(* so the event loop runs each handler body as one step.                    *)
(***************************************************************************)
EXTENDS Integers, Sequences, FiniteSets, TLC

VARIABLES users_db, orders_db, issued_users, issued_orders, freed, students,
          inflight, last, nops

vars == <<users_db, orders_db, issued_users, issued_orders, freed, students,
          inflight, last, nops>>

----------------------------------------------------------------------------
(* Bounds of the exploration *)

\* number of requests in a run
MaxOps == 2
\* largest id a create may allocate in a run
MaxId == 4

----------------------------------------------------------------------------
(* JSON values *)

Null == <<>>
Val(x) == <<x>>

----------------------------------------------------------------------------
(* Python dict operations on a store *)

Keys(db) == {db[i].key : i \in DOMAIN db}

Values(db) == [i \in DOMAIN db |-> db[i].val]

GetItem(db, k) == db[CHOOSE i \in DOMAIN db : db[i].key = k].val

\* a store that appends an entry on every write, also for a key it holds
SetItemAppend(db, k, v) == Append(db, [key |-> k, val |-> v])

\* a store in which a written key moves to the end
SetItemMoveToEnd(db, k, v) ==
    LET keep(e) == e.key # k
    IN Append(SelectSeq(db, keep), [key |-> k, val |-> v])

\* db[k] = v: an existing key keeps its position, a new key goes to the end
SetItem(db, k, v) ==
    IF k \in Keys(db)
    THEN [i \in DOMAIN db |-> IF db[i].key = k THEN [key |-> k, val |-> v] ELSE db[i]]
    ELSE Append(db, [key |-> k, val |-> v])

DelItem(db, k) ==
    LET keep(e) == e.key # k IN SelectSeq(db, keep)

\* {**a, **b} and a.update(b): the keys of b win
Merge(a, b) == b @@ a

SetMax(S) == CHOOSE m \in S : \A x \in S : x <= m

\* an allocator that hands out the smallest positive id not in use
next_id_first_free(db) ==
    CHOOSE n \in 1 .. (Cardinality(Keys(db)) + 1) :
        n \notin Keys(db) /\ \A m \in 1 .. (n - 1) : m \in Keys(db)

\* an allocator that hands out the id just below the largest key when it is free
next_id_recycle(db) ==
    LET m == SetMax(Keys(db) \cup {0})
    IN IF m > 1 /\ (m - 1) \notin Keys(db) THEN m - 1 ELSE m + 1

\* an allocator that counts the records instead of taking the largest key
next_id_len(db) == Cardinality(Keys(db)) + 1

next_id(db) == SetMax(Keys(db) \cup {0}) + 1

----------------------------------------------------------------------------
(* Schemas *)

NameMinLen == 2
NameMaxLen == 50
AgeMax == 120
ItemMinLen == 1
ItemMaxLen == 100

UserCreateFields == {"name", "email", "age"}
UserUpdateFields == {"name", "email", "age"}
UserOutFields == {"id", "name", "email", "age"}
OrderCreateFields == {"user_id", "item", "quantity", "total"}
OrderUpdateFields == {"item", "quantity", "total"}
OrderOutFields == {"id", "user_id", "item", "quantity", "total"}

\* the strings of the model that EmailStr accepts
EmailSyntaxOK ==
    {"alice@example.com", "bob@example.com", "charlie@example.com", "diana@example.com"}

\* the constraint of one field, on a non-null value
FieldOK(f, x) ==
    CASE f = "name" -> Len(x) >= NameMinLen /\ Len(x) <= NameMaxLen
      [] f = "email" -> x \in EmailSyntaxOK
      [] f = "age" -> x > 0 /\ x < AgeMax
      [] f = "user_id" -> x > 0
      [] f = "item" -> Len(x) >= ItemMinLen /\ Len(x) <= ItemMaxLen
      [] f = "quantity" -> x > 0
      [] f = "total" -> x > 0

\* a Create schema: every field required, non-null and within its constraint
CreateValid(fields, p) ==
    \A f \in fields : f \in DOMAIN p /\ p[f] # Null /\ FieldOK(f, p[f][1])

\* an Update schema: every field optional; null is accepted
UpdateValid(fields, p) ==
    \A f \in fields \cap DOMAIN p : p[f] = Null \/ FieldOK(f, p[f][1])

\* a schema that keeps the keys it does not declare (extra = "allow")
model_dump_keep_extras(fields, p) == p

\* model_dump(): the schema's fields; keys of the payload outside the schema
\* are ignored by the model
model_dump(fields, p) == [f \in fields |-> p[f]]

\* a dump without exclude_unset: a field the payload omitted is dumped as None
model_dump_with_unset(fields, p) ==
    [f \in fields |-> IF f \in DOMAIN p THEN p[f] ELSE Null]

\* a dump with exclude_none: a field sent as null is dropped
model_dump_exclude_none(fields, p) ==
    [f \in {g \in fields \cap DOMAIN p : p[g] # Null} |-> p[f]]

\* model_dump(exclude_unset=True): only the schema's fields the payload sent
model_dump_exclude_unset(fields, p) == [f \in fields \cap DOMAIN p |-> p[f]]

\* response_model: every field of the Out schema is required and non-null
OutValid(fields, rec) == \A f \in fields : f \in DOMAIN rec /\ rec[f] # Null

OutProject(fields, rec) == [f \in fields |-> rec[f]]

----------------------------------------------------------------------------
(* Responses *)

HTTP_200_OK == 200
HTTP_201_CREATED == 201
HTTP_404_NOT_FOUND == 404
HTTP_422_UNPROCESSABLE == 422
HTTP_500_SERVER_ERROR == 500

NoBody == <<>>

\* the handler returned rec under response_model = the Out schema `fields`
Respond(fields, code, rec) ==
    IF OutValid(fields, rec)
    THEN [status |-> code, body |-> OutProject(fields, rec)]
    ELSE [status |-> HTTP_500_SERVER_ERROR, body |-> NoBody]

\* the handler returned the list recs under response_model = list[Out]
RespondList(fields, recs) ==
    IF \A i \in DOMAIN recs : OutValid(fields, recs[i])
    THEN [status |-> HTTP_200_OK,
          body |-> [i \in DOMAIN recs |-> OutProject(fields, recs[i])]]
    ELSE [status |-> HTTP_500_SERVER_ERROR, body |-> NoBody]

----------------------------------------------------------------------------
(* dependencies.py *)

DefaultSkip == 0
DefaultLimit == 10
SkipMin == 0
LimitMin == 1
LimitMax == 100

\* a dependency that clamps the parameters to the nearest legal value
pagination_params_clamped(skipQ, limitQ) ==
    LET skip == IF skipQ = Null THEN DefaultSkip ELSE skipQ[1]
        limit == IF limitQ = Null THEN DefaultLimit ELSE limitQ[1]
    IN [ok |-> TRUE,
        skip |-> IF skip < SkipMin THEN SkipMin ELSE skip,
        limit |-> IF limit < LimitMin THEN LimitMin
                  ELSE IF limit > LimitMax THEN LimitMax ELSE limit]

\* a query parameter is Null when the request omits it
pagination_params(skipQ, limitQ) ==
    LET skip == IF skipQ = Null THEN DefaultSkip ELSE skipQ[1]
        limit == IF limitQ = Null THEN DefaultLimit ELSE limitQ[1]
    IN [ok |-> skip >= SkipMin /\ limit >= LimitMin /\ limit <= LimitMax,
        skip |-> skip, limit |-> limit]

\* Python's s[a:b] for 0 <= a <= b
Slice(s, a, b) == SubSeq(s, a + 1, IF b < Len(s) THEN b ELSE Len(s))

\* a lookup with dict.get: an absent id yields None, not a 404
get_user_or_none(db, user_id) ==
    IF user_id \notin Keys(db)
    THEN [db |-> db, status |-> HTTP_500_SERVER_ERROR, body |-> NoBody]
    ELSE [db |-> db] @@ Respond(UserOutFields, HTTP_200_OK, GetItem(db, user_id))

get_user_or_404(db, user_id) ==
    IF user_id \notin Keys(db)
    THEN [db |-> db, status |-> HTTP_404_NOT_FOUND, body |-> NoBody]
    ELSE [db |-> db] @@ Respond(UserOutFields, HTTP_200_OK, GetItem(db, user_id))

----------------------------------------------------------------------------
(* routers/users.py: each handler maps the Users store and the request to   *)
(* the store it leaves (db) and the response (status, body)                 *)

list_users(db, skipQ, limitQ) ==
    LET pagination == pagination_params(skipQ, limitQ) IN
    IF ~pagination.ok
    THEN [db |-> db, status |-> HTTP_422_UNPROCESSABLE, body |-> NoBody]
    ELSE LET users == Values(db)
             skip == pagination.skip
             limit == pagination.limit
         IN [db |-> db] @@ RespondList(UserOutFields, Slice(users, skip, skip + limit))

get_user(db, user_id) == get_user_or_404(db, user_id)

create_user(db, user) ==
    IF ~CreateValid(UserCreateFields, user)
    THEN [db |-> db, status |-> HTTP_422_UNPROCESSABLE, body |-> NoBody]
    ELSE LET new_id == next_id(db)
             new_user == Merge("id" :> Val(new_id), model_dump(UserCreateFields, user))
         IN [db |-> SetItem(db, new_id, new_user)]
            @@ Respond(UserOutFields, HTTP_201_CREATED, new_user)

\* a replace that stores the dump alone, without the id
replace_user_no_id(db, user_id, user) ==
    IF ~CreateValid(UserCreateFields, user)
    THEN [db |-> db, status |-> HTTP_422_UNPROCESSABLE, body |-> NoBody]
    ELSE IF user_id \notin Keys(db)
    THEN [db |-> db, status |-> HTTP_404_NOT_FOUND, body |-> NoBody]
    ELSE LET db2 == SetItem(db, user_id, model_dump(UserCreateFields, user))
         IN [db |-> db2] @@ Respond(UserOutFields, HTTP_200_OK, GetItem(db2, user_id))

\* a replace that looks the id up before the body is validated
replace_user_404_first(db, user_id, user) ==
    IF user_id \notin Keys(db)
    THEN [db |-> db, status |-> HTTP_404_NOT_FOUND, body |-> NoBody]
    ELSE IF ~CreateValid(UserCreateFields, user)
    THEN [db |-> db, status |-> HTTP_422_UNPROCESSABLE, body |-> NoBody]
    ELSE LET db2 == SetItem(db, user_id,
                        Merge("id" :> Val(user_id), model_dump(UserCreateFields, user)))
         IN [db |-> db2] @@ Respond(UserOutFields, HTTP_200_OK, GetItem(db2, user_id))

replace_user(db, user_id, user) ==
    IF ~CreateValid(UserCreateFields, user)
    THEN [db |-> db, status |-> HTTP_422_UNPROCESSABLE, body |-> NoBody]
    ELSE IF user_id \notin Keys(db)
    THEN [db |-> db, status |-> HTTP_404_NOT_FOUND, body |-> NoBody]
    ELSE LET db2 == SetItem(db, user_id,
                        Merge("id" :> Val(user_id), model_dump(UserCreateFields, user)))
         IN [db |-> db2] @@ Respond(UserOutFields, HTTP_200_OK, GetItem(db2, user_id))

\* a patch that merges every key of the body, the undeclared ones included
update_user_keep_extras(db, user_id, user) ==
    IF ~UpdateValid(UserUpdateFields, user)
    THEN [db |-> db, status |-> HTTP_422_UNPROCESSABLE, body |-> NoBody]
    ELSE IF user_id \notin Keys(db)
    THEN [db |-> db, status |-> HTTP_404_NOT_FOUND, body |-> NoBody]
    ELSE LET db2 == SetItem(db, user_id, Merge(GetItem(db, user_id), user))
         IN [db |-> db2] @@ Respond(UserOutFields, HTTP_200_OK, GetItem(db2, user_id))

update_user(db, user_id, user) ==
    IF ~UpdateValid(UserUpdateFields, user)
    THEN [db |-> db, status |-> HTTP_422_UNPROCESSABLE, body |-> NoBody]
    ELSE IF user_id \notin Keys(db)
    THEN [db |-> db, status |-> HTTP_404_NOT_FOUND, body |-> NoBody]
    ELSE LET update_data == model_dump_exclude_unset(UserUpdateFields, user)
             db2 == SetItem(db, user_id, Merge(GetItem(db, user_id), update_data))
         IN [db |-> db2] @@ Respond(UserOutFields, HTTP_200_OK, GetItem(db2, user_id))

delete_user(db, user_id) ==
    IF user_id \notin Keys(db)
    THEN [db |-> db, status |-> HTTP_404_NOT_FOUND, body |-> NoBody]
    ELSE [db |-> DelItem(db, user_id), status |-> HTTP_200_OK, body |-> NoBody]

----------------------------------------------------------------------------
(* routers/orders.py: each handler maps the two stores and the request to   *)
(* the Orders store it leaves (db) and the response; the module never       *)
(* writes the Users store                                                   *)

list_orders(odb, skipQ, limitQ) ==
    LET pagination == pagination_params(skipQ, limitQ) IN
    IF ~pagination.ok
    THEN [db |-> odb, status |-> HTTP_422_UNPROCESSABLE, body |-> NoBody]
    ELSE LET orders == Values(odb)
             skip == pagination.skip
             limit == pagination.limit
         IN [db |-> odb] @@ RespondList(OrderOutFields, Slice(orders, skip, skip + limit))

get_order(odb, order_id) ==
    IF order_id \notin Keys(odb)
    THEN [db |-> odb, status |-> HTTP_404_NOT_FOUND, body |-> NoBody]
    ELSE [db |-> odb] @@ Respond(OrderOutFields, HTTP_200_OK, GetItem(odb, order_id))

get_orders_by_user(udb, odb, user_id) ==
    IF user_id \notin Keys(udb)
    THEN [db |-> odb, status |-> HTTP_404_NOT_FOUND, body |-> NoBody]
    ELSE LET mine(o) == o.user_id = Val(user_id)
         IN [db |-> odb] @@ RespondList(OrderOutFields, SelectSeq(Values(odb), mine))

\* a create that stores the order before it checks the user
create_order_write_first(udb, odb, order) ==
    IF ~CreateValid(OrderCreateFields, order)
    THEN [db |-> odb, status |-> HTTP_422_UNPROCESSABLE, body |-> NoBody]
    ELSE LET new_id == next_id(odb)
             new_order == Merge("id" :> Val(new_id), model_dump(OrderCreateFields, order))
             db2 == SetItem(odb, new_id, new_order)
         IN IF order.user_id[1] \notin Keys(udb)
            THEN [db |-> db2, status |-> HTTP_404_NOT_FOUND, body |-> NoBody]
            ELSE [db |-> db2] @@ Respond(OrderOutFields, HTTP_201_CREATED, new_order)

\* a create without the check of the referenced user
create_order_unchecked(udb, odb, order) ==
    IF ~CreateValid(OrderCreateFields, order)
    THEN [db |-> odb, status |-> HTTP_422_UNPROCESSABLE, body |-> NoBody]
    ELSE LET new_id == next_id(odb)
             new_order == Merge("id" :> Val(new_id), model_dump(OrderCreateFields, order))
         IN [db |-> SetItem(odb, new_id, new_order)]
            @@ Respond(OrderOutFields, HTTP_201_CREATED, new_order)

create_order(udb, odb, order) ==
    IF ~CreateValid(OrderCreateFields, order)
    THEN [db |-> odb, status |-> HTTP_422_UNPROCESSABLE, body |-> NoBody]
    ELSE IF order.user_id[1] \notin Keys(udb)
    THEN [db |-> odb, status |-> HTTP_404_NOT_FOUND, body |-> NoBody]
    ELSE LET new_id == next_id(odb)
             new_order == Merge("id" :> Val(new_id), model_dump(OrderCreateFields, order))
         IN [db |-> SetItem(odb, new_id, new_order)]
            @@ Respond(OrderOutFields, HTTP_201_CREATED, new_order)

\* a replace without the check of the referenced user
replace_order_unchecked(udb, odb, order_id, order) ==
    IF ~CreateValid(OrderCreateFields, order)
    THEN [db |-> odb, status |-> HTTP_422_UNPROCESSABLE, body |-> NoBody]
    ELSE IF order_id \notin Keys(odb)
    THEN [db |-> odb, status |-> HTTP_404_NOT_FOUND, body |-> NoBody]
    ELSE LET db2 == SetItem(odb, order_id,
                        Merge("id" :> Val(order_id), model_dump(OrderCreateFields, order)))
         IN [db |-> db2] @@ Respond(OrderOutFields, HTTP_200_OK, GetItem(db2, order_id))

replace_order(udb, odb, order_id, order) ==
    IF ~CreateValid(OrderCreateFields, order)
    THEN [db |-> odb, status |-> HTTP_422_UNPROCESSABLE, body |-> NoBody]
    ELSE IF order_id \notin Keys(odb)
    THEN [db |-> odb, status |-> HTTP_404_NOT_FOUND, body |-> NoBody]
    ELSE IF order.user_id[1] \notin Keys(udb)
    THEN [db |-> odb, status |-> HTTP_404_NOT_FOUND, body |-> NoBody]
    ELSE LET db2 == SetItem(odb, order_id,
                        Merge("id" :> Val(order_id), model_dump(OrderCreateFields, order)))
         IN [db |-> db2] @@ Respond(OrderOutFields, HTTP_200_OK, GetItem(db2, order_id))

\* a patch that merges every key of the body, the undeclared ones included
update_order_keep_extras(odb, order_id, order) ==
    IF ~UpdateValid(OrderUpdateFields, order)
    THEN [db |-> odb, status |-> HTTP_422_UNPROCESSABLE, body |-> NoBody]
    ELSE IF order_id \notin Keys(odb)
    THEN [db |-> odb, status |-> HTTP_404_NOT_FOUND, body |-> NoBody]
    ELSE LET db2 == SetItem(odb, order_id, Merge(GetItem(odb, order_id), order))
         IN [db |-> db2] @@ Respond(OrderOutFields, HTTP_200_OK, GetItem(db2, order_id))

update_order(odb, order_id, order) ==
    IF ~UpdateValid(OrderUpdateFields, order)
    THEN [db |-> odb, status |-> HTTP_422_UNPROCESSABLE, body |-> NoBody]
    ELSE IF order_id \notin Keys(odb)
    THEN [db |-> odb, status |-> HTTP_404_NOT_FOUND, body |-> NoBody]
    ELSE LET update_data == model_dump_exclude_unset(OrderUpdateFields, order)
             db2 == SetItem(odb, order_id, Merge(GetItem(odb, order_id), update_data))
         IN [db |-> db2] @@ Respond(OrderOutFields, HTTP_200_OK, GetItem(db2, order_id))

delete_order(odb, order_id) ==
    IF order_id \notin Keys(odb)
    THEN [db |-> odb, status |-> HTTP_404_NOT_FOUND, body |-> NoBody]
    ELSE [db |-> DelItem(odb, order_id), status |-> HTTP_200_OK, body |-> NoBody]

----------------------------------------------------------------------------
(* db/fake_db.py: the seed data *)

SeedUsers ==
    << [key |-> 1, val |-> [id |-> Val(1), name |-> Val("Alice Rahman"),
                            email |-> Val("alice@example.com"), age |-> Val(28)]],
       [key |-> 2, val |-> [id |-> Val(2), name |-> Val("Bob Hossain"),
                            email |-> Val("bob@example.com"), age |-> Val(34)]],
       [key |-> 3, val |-> [id |-> Val(3), name |-> Val("Charlie Dev"),
                            email |-> Val("charlie@example.com"), age |-> Val(22)]] >>

SeedOrders ==
    << [key |-> 1, val |-> [id |-> Val(1), user_id |-> Val(1), item |-> Val("Laptop"),
                            quantity |-> Val(1), total |-> Val(99999)]],
       [key |-> 2, val |-> [id |-> Val(2), user_id |-> Val(1), item |-> Val("Mouse"),
                            quantity |-> Val(2), total |-> Val(4998)]],
       [key |-> 3, val |-> [id |-> Val(3), user_id |-> Val(2), item |-> Val("Keyboard"),
                            quantity |-> Val(1), total |-> Val(8999)]] >>

----------------------------------------------------------------------------
(* Requests *)

Restrict(p, S) == [f \in S |-> p[f]]

\* path parameters: every id a run can allocate, and one that is never present
IdInputs == 1 .. (MaxId + 1)

SkipInputs == {Null, Val(0 - 1), Val(0), Val(1), Val(2), Val(4), Val(100)}
LimitInputs == {Null, Val(0), Val(1), Val(2), Val(100), Val(101)}

Diana == [name |-> Val("Diana Dev"), email |-> Val("diana@example.com"), age |-> Val(25)]

\* bodies sent to POST /users/ and PUT /users/{id}: valid ones, ones that break
\* a constraint, ones with a null or a missing field, one with a key outside
\* the schema
UserCreateInputs ==
    [name : {Val("Diana Dev"), Val("X"), Null},
     email : {Val("diana@example.com"), Val("not-an-email")},
     age : {Val(25), Val(119), Val(120), Val(0)}]
    \cup {Restrict(Diana, {"name"}), Restrict(Diana, {"name", "age"}),
          ("id" :> Val(99)) @@ Diana}

\* bodies sent to PATCH /users/{id}: any subset of the fields, each a valid
\* value or null; bodies that break a constraint; bodies with a key outside
\* the schema
UserUpdateInputs ==
    {Restrict(p, S) :
        p \in [name : {Val("Diana Dev"), Null},
               email : {Val("diana@example.com"), Null},
               age : {Val(30), Null}],
        S \in SUBSET UserUpdateFields}
    \cup {[name |-> Val("X")], [email |-> Val("not-an-email")],
          [age |-> Val(200), name |-> Null]}
    \cup {[id |-> Val(99)], [id |-> Val(99), age |-> Val(30)]}

Pen == [user_id |-> Val(1), item |-> Val("Pen"), quantity |-> Val(2), total |-> Val(300)]

OrderFor(u) == [Pen EXCEPT !.user_id = Val(u)]

\* bodies sent to POST /orders/ and PUT /orders/{id}
OrderCreateInputs ==
    [user_id : {Val(u) : u \in 0 .. (MaxId + 1)},
     item : {Val("Pen"), Val("")},
     quantity : {Val(2), Val(0)},
     total : {Val(300), Val(0)}]
    \cup {Restrict(Pen, {"item", "quantity", "total"}), [Pen EXCEPT !.item = Null],
          ("id" :> Val(99)) @@ Pen}

\* bodies sent to PATCH /orders/{id}
OrderUpdateInputs ==
    {Restrict(p, S) :
        p \in [item : {Val("Pen"), Null},
               quantity : {Val(5), Null},
               total : {Val(300), Null}],
        S \in SUBSET OrderUpdateFields}
    \cup {[item |-> Val("")], [quantity |-> Val(0)], [total |-> Val(0), item |-> Null]}
    \cup {[user_id |-> Val(2)], [user_id |-> Val(2), quantity |-> Val(5)],
          [id |-> Val(99)]}

\* What the runs send.  The claims quantify over all the inputs above in every
\* state the runs reach; the runs themselves send these.
UserCreateSteps == {Diana, [Diana EXCEPT !.age = Val(120)]}
UserUpdateSteps == {[age |-> Val(30)], [name |-> Null], [name |-> Val("X")]}
OrderCreateSteps ==
    {OrderFor(1), OrderFor(3), OrderFor(MaxId + 1), [Pen EXCEPT !.quantity = Val(0)]}
OrderUpdateSteps == {[quantity |-> Val(5)], [item |-> Null], [total |-> Val(0)]}
SkipSteps == {Null, Val(0 - 1), Val(4)}
LimitSteps == {Null, Val(2)}
\* PUT and PATCH go to the first record, the last seed record or no record
TargetSteps == {1, 3, MaxId + 1}

----------------------------------------------------------------------------
(* myapi.py: the students API.  Every route answers 200 with the value the  *)
(* handler returns (there is no response_model), or 422 when a parameter or *)
(* the body fails validation.                                               *)

StudentFields == {"name", "age", "class_name"}

\* Student: every field required and non-null
StudentValid(p) == \A f \in StudentFields : f \in DOMAIN p /\ p[f] # Null

\* UpdateStudent: every field Optional with default None (a null or a value
\* of the field's type)
UpdateStudentValid(p) == \A f \in StudentFields \cap DOMAIN p : Len(p[f]) <= 1

\* Path(gt=0, lt=3) of get_student
StudentIdGt == 0
StudentIdLt == 3

StudentExists == [Error |-> "Student exists"]
StudentDoesNotExist == [Error |-> "Student does not exist"]
StudentNotFound == [Data |-> "Not Found"]
StudentDeleted(student_id) == [Message |-> <<"deleted", student_id>>]

Answer(db, body) == [db |-> db, status |-> HTTP_200_OK, body |-> body]
Unprocessable(db) == [db |-> db, status |-> HTTP_422_UNPROCESSABLE, body |-> NoBody]

index(db) == Answer(db, db)

get_student(db, student_id) ==
    IF ~(student_id > StudentIdGt /\ student_id < StudentIdLt)
    THEN Unprocessable(db)
    ELSE IF student_id \notin Keys(db)
    THEN Answer(db, StudentDoesNotExist)
    ELSE Answer(db, GetItem(db, student_id))

\* the first student, in store order, whose name is `name`; `test` is a
\* required query parameter
get_student_by_name(db, name, test) ==
    IF test = Null
    THEN Unprocessable(db)
    ELSE LET hits == {i \in DOMAIN db : db[i].val.name = name}
         IN IF hits = {}
            THEN Answer(db, StudentNotFound)
            ELSE Answer(db, db[CHOOSE i \in hits : \A j \in hits : i <= j].val)

\* a create that writes the record whether or not the id is taken
create_student_overwrite(db, student_id, student) ==
    IF ~StudentValid(student)
    THEN Unprocessable(db)
    ELSE LET db2 == SetItem(db, student_id, model_dump(StudentFields, student))
         IN Answer(db2, GetItem(db2, student_id))

create_student(db, student_id, student) ==
    IF ~StudentValid(student)
    THEN Unprocessable(db)
    ELSE IF student_id \in Keys(db)
    THEN Answer(db, StudentExists)
    ELSE LET db2 == SetItem(db, student_id, model_dump(StudentFields, student))
         IN Answer(db2, GetItem(db2, student_id))

\* an update that stores the whole model, the unset fields as None
update_student_whole(db, student_id, student) ==
    IF ~UpdateStudentValid(student)
    THEN Unprocessable(db)
    ELSE IF student_id \notin Keys(db)
    THEN Answer(db, StudentDoesNotExist)
    ELSE LET db2 == SetItem(db, student_id, model_dump_with_unset(StudentFields, student))
         IN Answer(db2, GetItem(db2, student_id))

update_student(db, student_id, student) ==
    IF ~UpdateStudentValid(student)
    THEN Unprocessable(db)
    ELSE IF student_id \notin Keys(db)
    THEN Answer(db, StudentDoesNotExist)
    ELSE LET update_data == model_dump_exclude_unset(StudentFields, student)
             db2 == SetItem(db, student_id, Merge(GetItem(db, student_id), update_data))
         IN Answer(db2, GetItem(db2, student_id))

delete_student(db, student_id) ==
    IF student_id \notin Keys(db)
    THEN Answer(db, StudentDoesNotExist)
    ELSE Answer(DelItem(db, student_id), StudentDeleted(student_id))

SeedStudents ==
    <<[key |-> 1, val |-> [name |-> Val("John"), age |-> Val(17),
                           class_name |-> Val("year 12")]]>>

\* student ids sent in the path: below, inside and above the bounds of
\* get_student
StudentIdInputs == 0 .. MaxId

Ahnaf == [name |-> Val("Ahnaf"), age |-> Val(17), class_name |-> Val("year 12")]

\* bodies sent to POST /create-student/{id}
StudentInputs ==
    {Ahnaf, [Ahnaf EXCEPT !.name = Val("John")], [Ahnaf EXCEPT !.age = Null],
     Restrict(Ahnaf, {"name", "age"}), ("id" :> Val(99)) @@ Ahnaf}

\* bodies sent to PUT /update-student/{id}
UpdateStudentInputs ==
    {Restrict(p, S) :
        p \in [name : {Val("Ahnaf"), Null}, age : {Val(18)}, class_name : {Val("year 13")}],
        S \in SUBSET StudentFields}
    \cup {[id |-> Val(99), age |-> Val(18)]}

StudentSteps == {Ahnaf, [Ahnaf EXCEPT !.age = Null]}
UpdateStudentSteps == {[age |-> Val(18)], [name |-> Null], [name |-> Val("Ahnaf")]}
NameInputs == {Null, Val("John"), Val("Ahnaf")}
TestInputs == {Null, Val(1)}

----------------------------------------------------------------------------
(* The state machine: one action per route *)

\* The ids a store has freed: for each key that a delete removed and no create
\* has assigned again, whether it was the largest key when it was removed
\* (was_max) and whether a larger id has been assigned since (higher).  F is
\* the record of the store before a request, db and db2 the store before and
\* after it.
FreedAfter(F, db, db2) ==
    LET gone == Keys(db) \ Keys(db2)
        new == Keys(db2) \ Keys(db)
        still == {e \in F : e.id \notin new}
    IN {[e EXCEPT !.higher = e.higher \/ \E n \in new : n > e.id] : e \in still}
       \cup {[id |-> k, was_max |-> k = SetMax(Keys(db)), higher |-> FALSE] : k \in gone}

Init ==
    /\ users_db = SeedUsers
    /\ orders_db = SeedOrders
    /\ issued_users = Keys(SeedUsers)
    /\ issued_orders = Keys(SeedOrders)
    /\ freed = [users |-> {}, orders |-> {}]
    /\ students = SeedStudents
    /\ inflight = <<>>
    /\ last = [op |-> "start", status |-> 0]
    /\ nops = 0

Read(op, r) ==
    /\ nops < MaxOps
    /\ nops' = nops + 1
    /\ last' = [op |-> op, status |-> r.status]
    /\ UNCHANGED <<users_db, orders_db, issued_users, issued_orders, freed, students,
                   inflight>>

WriteUsers(op, r) ==
    /\ nops < MaxOps
    /\ nops' = nops + 1
    /\ users_db' = r.db
    /\ freed' = [freed EXCEPT !.users = FreedAfter(@, users_db, r.db)]
    /\ last' = [op |-> op, status |-> r.status]
    /\ UNCHANGED <<orders_db, issued_orders, students, inflight>>

WriteOrders(op, r) ==
    /\ nops < MaxOps
    /\ nops' = nops + 1
    /\ orders_db' = r.db
    /\ freed' = [freed EXCEPT !.orders = FreedAfter(@, orders_db, r.db)]
    /\ last' = [op |-> op, status |-> r.status]
    /\ UNCHANGED <<users_db, issued_users, students, inflight>>

ListUsers ==
    \E skipQ \in SkipSteps, limitQ \in LimitSteps :
        Read("list_users", list_users(users_db, skipQ, limitQ))

GetUser == \E user_id \in IdInputs : Read("get_user", get_user(users_db, user_id))

CreateUser ==
    \E user \in UserCreateSteps :
        /\ next_id(users_db) <= MaxId
        /\ WriteUsers("create_user", create_user(users_db, user))
        /\ issued_users' = issued_users \cup (Keys(users_db') \ Keys(users_db))

ReplaceUser ==
    \E user_id \in TargetSteps, user \in UserCreateSteps :
        /\ WriteUsers("replace_user", replace_user(users_db, user_id, user))
        /\ UNCHANGED issued_users

UpdateUser ==
    \E user_id \in TargetSteps, user \in UserUpdateSteps :
        /\ WriteUsers("update_user", update_user(users_db, user_id, user))
        /\ UNCHANGED issued_users

\* a delete that cascades: the orders of the deleted user go with it
DeleteUserCascade ==
    \E user_id \in IdInputs :
        LET r == delete_user(users_db, user_id)
            others(e) == e.val.user_id # Val(user_id)
        IN /\ nops < MaxOps
           /\ nops' = nops + 1
           /\ users_db' = r.db
           /\ freed' = [freed EXCEPT !.users = FreedAfter(@, users_db, r.db)]
           /\ orders_db' = IF r.status = HTTP_200_OK
                           THEN SelectSeq(orders_db, others) ELSE orders_db
           /\ last' = [op |-> "delete_user", status |-> r.status]
           /\ UNCHANGED <<issued_users, issued_orders, students, inflight>>

DeleteUser ==
    \E user_id \in IdInputs :
        /\ WriteUsers("delete_user", delete_user(users_db, user_id))
        /\ UNCHANGED issued_users

ListOrders ==
    \E skipQ \in SkipSteps, limitQ \in LimitSteps :
        Read("list_orders", list_orders(orders_db, skipQ, limitQ))

GetOrder == \E order_id \in IdInputs : Read("get_order", get_order(orders_db, order_id))

\* a list_by_user that, finding the user gone, drops that user's orders
GetOrdersByUserPruning ==
    \E user_id \in IdInputs :
        LET r == get_orders_by_user(users_db, orders_db, user_id)
            others(e) == e.val.user_id # Val(user_id)
        IN /\ nops < MaxOps
           /\ nops' = nops + 1
           /\ orders_db' = IF r.status = HTTP_404_NOT_FOUND
                           THEN SelectSeq(orders_db, others) ELSE orders_db
           /\ last' = [op |-> "get_orders_by_user", status |-> r.status]
           /\ UNCHANGED <<users_db, issued_users, issued_orders, freed, students,
                          inflight>>

GetOrdersByUser ==
    \E user_id \in IdInputs :
        Read("get_orders_by_user", get_orders_by_user(users_db, orders_db, user_id))

CreateOrder ==
    \E order \in OrderCreateSteps :
        /\ next_id(orders_db) <= MaxId
        /\ WriteOrders("create_order", create_order(users_db, orders_db, order))
        /\ issued_orders' = issued_orders \cup (Keys(orders_db') \ Keys(orders_db))

ReplaceOrder ==
    \E order_id \in TargetSteps, order \in OrderCreateSteps :
        /\ WriteOrders("replace_order", replace_order(users_db, orders_db, order_id, order))
        /\ UNCHANGED issued_orders

UpdateOrder ==
    \E order_id \in TargetSteps, order \in OrderUpdateSteps :
        /\ WriteOrders("update_order", update_order(orders_db, order_id, order))
        /\ UNCHANGED issued_orders

DeleteOrder ==
    \E order_id \in IdInputs :
        /\ WriteOrders("delete_order", delete_order(orders_db, order_id))
        /\ UNCHANGED issued_orders

Next ==
    \/ ListUsers
    \/ GetUser
    \/ CreateUser
    \/ ReplaceUser
    \/ UpdateUser
    \/ DeleteUser
    \/ ListOrders
    \/ GetOrder
    \/ GetOrdersByUser
    \/ CreateOrder
    \/ ReplaceOrder
    \/ UpdateOrder
    \/ DeleteOrder

Spec == Init /\ [][Next]_vars

----------------------------------------------------------------------------
(* The students API as a state machine: one action per route of myapi.py *)

StudentsStep(op, r) ==
    /\ nops < MaxOps
    /\ nops' = nops + 1
    /\ students' = r.db
    /\ last' = [op |-> op, status |-> r.status]
    /\ UNCHANGED <<users_db, orders_db, issued_users, issued_orders, freed, inflight>>

Index == StudentsStep("index", index(students))

GetStudent ==
    \E student_id \in StudentIdInputs :
        StudentsStep("get_student", get_student(students, student_id))

GetStudentByName ==
    \E name \in NameInputs, test \in TestInputs :
        StudentsStep("get_student_by_name", get_student_by_name(students, name, test))

CreateStudent ==
    \E student_id \in StudentIdInputs, student \in StudentSteps :
        StudentsStep("create_student", create_student(students, student_id, student))

UpdateStudent ==
    \E student_id \in StudentIdInputs, student \in UpdateStudentSteps :
        StudentsStep("update_student", update_student(students, student_id, student))

DeleteStudent ==
    \E student_id \in StudentIdInputs :
        StudentsStep("delete_student", delete_student(students, student_id))

NextStudents ==
    \/ Index
    \/ GetStudent
    \/ GetStudentByName
    \/ CreateStudent
    \/ UpdateStudent
    \/ DeleteStudent

SpecStudents == Init /\ [][NextStudents]_vars

----------------------------------------------------------------------------
(* Concurrent requests on app/: a request arrives (its body is read and      *)
(* validated while other requests run), then the event loop runs its handler *)
(* body; an async def body without an await is one step of the loop.         *)

\* the ids the concurrent PUT, PATCH and DELETE requests contend on
ContendedIds == {3, MaxId}

Arrive(op, id, body) ==
    /\ nops < MaxOps
    /\ nops' = nops + 1
    /\ inflight' = Append(inflight, [op |-> op, id |-> id, body |-> body,
                                     pc |-> "received", status |-> 0, rid |-> 0])
    /\ UNCHANGED <<users_db, orders_db, issued_users, issued_orders, freed, students,
                   last>>

Arrival ==
    \/ \E user \in UserCreateSteps : Arrive("create_user", 0, user)
    \/ \E id \in ContendedIds : Arrive("replace_user", id, Diana)
    \/ \E id \in ContendedIds, user \in {[age |-> Val(30)], [name |-> Null]} :
        Arrive("update_user", id, user)
    \/ \E id \in ContendedIds : Arrive("delete_user", id, Null)
    \/ \E order \in {OrderFor(1), OrderFor(3)} : Arrive("create_order", 0, order)
    \/ \E id \in ContendedIds : Arrive("replace_order", id, OrderFor(3))
    \/ \E id \in ContendedIds : Arrive("update_order", id, [quantity |-> Val(5)])
    \/ \E id \in ContendedIds : Arrive("delete_order", id, Null)

Pending(i, op) == inflight[i].op = op /\ inflight[i].pc = "received"

\* the response of request i: its status and, for a create, the id returned
Finish(i, status, rid) ==
    /\ inflight' = [inflight EXCEPT ![i].pc = "done", ![i].status = status,
                                    ![i].rid = rid]
    /\ last' = [op |-> inflight[i].op, status |-> status]
    /\ UNCHANGED <<nops, students>>

CreatedId(r) == IF r.status = HTTP_201_CREATED THEN r.body.id[1] ELSE 0

HandleUsers(i, r) ==
    /\ users_db' = r.db
    /\ issued_users' = issued_users \cup (Keys(r.db) \ Keys(users_db))
    /\ freed' = [freed EXCEPT !.users = FreedAfter(@, users_db, r.db)]
    /\ Finish(i, r.status, CreatedId(r))
    /\ UNCHANGED <<orders_db, issued_orders>>

HandleOrders(i, r) ==
    /\ orders_db' = r.db
    /\ issued_orders' = issued_orders \cup (Keys(r.db) \ Keys(orders_db))
    /\ freed' = [freed EXCEPT !.orders = FreedAfter(@, orders_db, r.db)]
    /\ Finish(i, r.status, CreatedId(r))
    /\ UNCHANGED <<users_db, issued_users>>

\* a create with a suspension point between next_id and the store write: the
\* first step allocates the id, a later step writes the record under it
HandleCreateUserSuspending(i) ==
    \/ /\ Pending(i, "create_user")
       /\ IF CreateValid(UserCreateFields, inflight[i].body)
          THEN /\ inflight' = [inflight EXCEPT ![i].pc = "allocated",
                                               ![i].rid = next_id(users_db)]
               /\ UNCHANGED <<users_db, orders_db, issued_users, issued_orders,
                              freed, students, last, nops>>
          ELSE HandleUsers(i, create_user(users_db, inflight[i].body))
    \/ /\ inflight[i].op = "create_user" /\ inflight[i].pc = "allocated"
       /\ LET new_id == inflight[i].rid
              new_user == Merge("id" :> Val(new_id),
                                model_dump(UserCreateFields, inflight[i].body))
          IN HandleUsers(i, [db |-> SetItem(users_db, new_id, new_user)]
                            @@ Respond(UserOutFields, HTTP_201_CREATED, new_user))

HandleCreateUser(i) ==
    /\ Pending(i, "create_user")
    /\ HandleUsers(i, create_user(users_db, inflight[i].body))

HandleReplaceUser(i) ==
    /\ Pending(i, "replace_user")
    /\ HandleUsers(i, replace_user(users_db, inflight[i].id, inflight[i].body))

HandleUpdateUser(i) ==
    /\ Pending(i, "update_user")
    /\ HandleUsers(i, update_user(users_db, inflight[i].id, inflight[i].body))

HandleDeleteUser(i) ==
    /\ Pending(i, "delete_user")
    /\ HandleUsers(i, delete_user(users_db, inflight[i].id))

HandleCreateOrder(i) ==
    /\ Pending(i, "create_order")
    /\ HandleOrders(i, create_order(users_db, orders_db, inflight[i].body))

HandleReplaceOrder(i) ==
    /\ Pending(i, "replace_order")
    /\ HandleOrders(i, replace_order(users_db, orders_db, inflight[i].id, inflight[i].body))

HandleUpdateOrder(i) ==
    /\ Pending(i, "update_order")
    /\ HandleOrders(i, update_order(orders_db, inflight[i].id, inflight[i].body))

HandleDeleteOrder(i) ==
    /\ Pending(i, "delete_order")
    /\ HandleOrders(i, delete_order(orders_db, inflight[i].id))

NextConcurrent ==
    \/ Arrival
    \/ \E i \in DOMAIN inflight :
        \/ HandleCreateUser(i)
        \/ HandleReplaceUser(i)
        \/ HandleUpdateUser(i)
        \/ HandleDeleteUser(i)
        \/ HandleCreateOrder(i)
        \/ HandleReplaceOrder(i)
        \/ HandleUpdateOrder(i)
        \/ HandleDeleteOrder(i)

SpecConcurrent == Init /\ [][NextConcurrent]_vars

----------------------------------------------------------------------------
(* Helpers of the properties *)

ValidUserCreates == {p \in UserCreateInputs : CreateValid(UserCreateFields, p)}
ValidUserUpdates == {p \in UserUpdateInputs : UpdateValid(UserUpdateFields, p)}
ValidOrderCreates == {p \in OrderCreateInputs : CreateValid(OrderCreateFields, p)}
ValidOrderUpdates == {p \in OrderUpdateInputs : UpdateValid(OrderUpdateFields, p)}

\* the valid PATCH bodies that send exactly one key
SingleUserUpdates == {p \in ValidUserUpdates : Cardinality(DOMAIN p) = 1}
SingleOrderUpdates == {p \in ValidOrderUpdates : Cardinality(DOMAIN p) = 1}

UniqueKeys(db) == Cardinality(Keys(db)) = Len(db)

\* every entry of db other than the one under key k is the same entry, at the
\* same position, in db2
OthersSame(db, db2, k) ==
    /\ Len(db2) = Len(db)
    /\ \A i \in DOMAIN db : db[i].key # k => db2[i] = db[i]
    /\ \A i \in DOMAIN db : db2[i].key = db[i].key

Succeeded(r) == r.status \in {HTTP_200_OK, HTTP_201_CREATED}

----------------------------------------------------------------------------
(* C1: for every schema-valid OrderCreate payload, in every reachable state, *)
(* create_order answers 404 exactly when payload.user_id is not a key of the *)
(* Users store, and otherwise answers 201 and stores the order; replace_order*)
(* on an existing order id answers 404 when payload.user_id is absent from   *)
(* the Users store and otherwise overwrites the order.                       *)
C1_CrossResourceCheck ==
    /\ \A p \in ValidOrderCreates :
        LET r == create_order(users_db, orders_db, p)
            present == p.user_id[1] \in Keys(users_db)
        IN /\ (r.status = HTTP_404_NOT_FOUND) <=> ~present
           /\ present =>
                /\ r.status = HTTP_201_CREATED
                /\ Len(r.db) = Len(orders_db) + 1
                /\ r.db[Len(r.db)].val = r.body
                /\ Restrict(r.body, OrderCreateFields) = Restrict(p, OrderCreateFields)
    /\ \A order_id \in Keys(orders_db), p \in ValidOrderCreates :
        LET r == replace_order(users_db, orders_db, order_id, p)
            present == p.user_id[1] \in Keys(users_db)
        IN /\ (r.status = HTTP_404_NOT_FOUND) <=> ~present
           /\ present =>
                /\ r.status = HTTP_200_OK
                /\ GetItem(r.db, order_id)
                     = Merge("id" :> Val(order_id), Restrict(p, OrderCreateFields))

\* a create_order for a user that is absent was answered 404 after a user was deleted
C1_Witness ==
    /\ last = [op |-> "create_order", status |-> HTTP_404_NOT_FOUND]
    /\ 3 \notin Keys(users_db)

----------------------------------------------------------------------------
(* C2 as stated: no create returns an id that was ever assigned to an        *)
(* earlier record of that store, deleted records included.                   *)
C2_NeverReused ==
    /\ \A p \in ValidUserCreates :
        create_user(users_db, p).body.id[1] \notin issued_users
    /\ \A p \in ValidOrderCreates :
        LET r == create_order(users_db, orders_db, p)
        IN r.status = HTTP_201_CREATED => r.body.id[1] \notin issued_orders

(* C2 amended: the keys of a store are unique, and every create returns an   *)
(* id greater than every key present in the store at the call, so it never   *)
(* collides with a record that is present; an id freed by a delete is        *)
(* returned again only when no key greater than or equal to it is present.   *)
C2_FreshAmongPresent ==
    /\ UniqueKeys(users_db)
    /\ UniqueKeys(orders_db)
    /\ \A p \in ValidUserCreates :
        LET r == create_user(users_db, p)
        IN /\ r.status = HTTP_201_CREATED
           /\ \A k \in Keys(users_db) : r.body.id[1] > k
           /\ Keys(r.db) = Keys(users_db) \cup {r.body.id[1]}
           /\ UniqueKeys(r.db)
    /\ \A p \in ValidOrderCreates :
        LET r == create_order(users_db, orders_db, p)
        IN r.status = HTTP_201_CREATED =>
            /\ \A k \in Keys(orders_db) : r.body.id[1] > k
            /\ Keys(r.db) = Keys(orders_db) \cup {r.body.id[1]}
            /\ UniqueKeys(r.db)

\* user 3 was deleted and the next create_user was given the id 3 again
C2_Witness ==
    /\ last = [op |-> "create_user", status |-> HTTP_201_CREATED]
    /\ issued_users = {1, 2, 3}
    /\ Keys(users_db) = {1, 2, 3}
    /\ GetItem(users_db, 3).name = Val("Diana Dev")

----------------------------------------------------------------------------
(* C3: every operation that answers 404 leaves both stores as they were; a   *)
(* failed cross-resource check on create_order leaves no order behind.       *)
C3_NotFoundLeavesStores ==
    LET Kept(r, db) == r.status = HTTP_404_NOT_FOUND => r.db = db IN
    /\ \A id \in IdInputs :
        /\ Kept(get_user(users_db, id), users_db)
        /\ Kept(delete_user(users_db, id), users_db)
        /\ Kept(get_order(orders_db, id), orders_db)
        /\ Kept(delete_order(orders_db, id), orders_db)
        /\ Kept(get_orders_by_user(users_db, orders_db, id), orders_db)
        /\ \A p \in ValidUserCreates : Kept(replace_user(users_db, id, p), users_db)
        /\ \A p \in SingleUserUpdates : Kept(update_user(users_db, id, p), users_db)
        /\ \A p \in ValidOrderCreates :
            Kept(replace_order(users_db, orders_db, id, p), orders_db)
        /\ \A p \in SingleOrderUpdates : Kept(update_order(orders_db, id, p), orders_db)
    /\ \A p \in ValidOrderCreates :
        Kept(create_order(users_db, orders_db, p), orders_db)

\* a replace_order was answered 404 and the three seed orders are as seeded
C3_Witness ==
    /\ last = [op |-> "replace_order", status |-> HTTP_404_NOT_FOUND]
    /\ orders_db = SeedOrders

----------------------------------------------------------------------------
(* C4: partial-update law.  For an existing id, a patch whose body sends one *)
(* field f changes only field f of that record: every other field of the     *)
(* record, id included, keeps its value, and every other record of the store *)
(* is unchanged.                                                             *)
C4_PatchOnlyThatField ==
    /\ \A id \in Keys(users_db), p \in SingleUserUpdates :
        LET r == update_user(users_db, id, p)
            old == GetItem(users_db, id)
            new == GetItem(r.db, id)
        IN /\ OthersSame(users_db, r.db, id)
           /\ DOMAIN new = DOMAIN old
           /\ \A g \in DOMAIN old \ DOMAIN p : new[g] = old[g]
           /\ new.id = old.id
           /\ \A f \in DOMAIN p \cap UserUpdateFields : new[f] = p[f]
    /\ \A id \in Keys(orders_db), p \in SingleOrderUpdates :
        LET r == update_order(orders_db, id, p)
            old == GetItem(orders_db, id)
            new == GetItem(r.db, id)
        IN /\ OthersSame(orders_db, r.db, id)
           /\ DOMAIN new = DOMAIN old
           /\ \A g \in DOMAIN old \ DOMAIN p : new[g] = old[g]
           /\ new.id = old.id
           /\ new.user_id = old.user_id
           /\ \A f \in DOMAIN p \cap OrderUpdateFields : new[f] = p[f]

\* PATCH /users/1 {"age": 30} was answered 200: the age is 30, the rest is as seeded
C4_Witness ==
    /\ last = [op |-> "update_user", status |-> HTTP_200_OK]
    /\ GetItem(users_db, 1) = [SeedUsers[1].val EXCEPT !.age = Val(30)]

----------------------------------------------------------------------------
(* C5: in a patch on an existing user or order, a field sent as null         *)
(* overwrites the stored value with null, and a field the body omits keeps   *)
(* its stored value.                                                         *)
C5_NullOverwritesOmittedKeeps ==
    /\ \A id \in Keys(users_db), p \in ValidUserUpdates :
        LET old == GetItem(users_db, id)
            new == GetItem(update_user(users_db, id, p).db, id)
        IN \A f \in UserUpdateFields :
            /\ (f \in DOMAIN p /\ p[f] = Null) => new[f] = Null
            /\ f \notin DOMAIN p => new[f] = old[f]
    /\ \A id \in Keys(orders_db), p \in ValidOrderUpdates :
        LET old == GetItem(orders_db, id)
            new == GetItem(update_order(orders_db, id, p).db, id)
        IN \A f \in OrderUpdateFields :
            /\ (f \in DOMAIN p /\ p[f] = Null) => new[f] = Null
            /\ f \notin DOMAIN p => new[f] = old[f]

\* PATCH /users/1 {"name": null} was handled: the name is null, the rest is as seeded
C5_Witness ==
    /\ last.op = "update_user"
    /\ GetItem(users_db, 1) = [SeedUsers[1].val EXCEPT !.name = Null]

----------------------------------------------------------------------------
(* C6 as stated: PATCH /users/{id} on a present id with any body the         *)
(* UserUpdate schema accepts is answered 200 with the UserOut projection of  *)
(* the stored record.                                                        *)
C6_PatchAnswers200 ==
    \A id \in Keys(users_db), p \in ValidUserUpdates :
        LET r == update_user(users_db, id, p)
        IN /\ r.status = HTTP_200_OK
           /\ r.body = OutProject(UserOutFields, GetItem(r.db, id))

----------------------------------------------------------------------------
----------------------------------------------------------------------------
(* C8: lookup is never stale.  In every reachable state get(id) answers 404  *)
(* exactly when id is not a key of the store; right after a successful       *)
(* delete(id) a get(id) answers 404, and right after a successful create,    *)
(* replace or patch a get of that id returns the record just stored.         *)
C8_LookupNeverStale ==
    LET Fresh(r, g, id) ==
            Succeeded(r) =>
                /\ g.status = HTTP_200_OK
                /\ g.body = GetItem(r.db, id)
                /\ g.body = r.body
    IN
    /\ \A id \in IdInputs :
        /\ (get_user(users_db, id).status = HTTP_404_NOT_FOUND) <=> id \notin Keys(users_db)
        /\ (get_order(orders_db, id).status = HTTP_404_NOT_FOUND) <=> id \notin Keys(orders_db)
    /\ \A id \in Keys(users_db) :
        /\ delete_user(users_db, id).status = HTTP_200_OK
        /\ get_user(delete_user(users_db, id).db, id).status = HTTP_404_NOT_FOUND
        /\ \A p \in ValidUserCreates :
            LET r == replace_user(users_db, id, p) IN Fresh(r, get_user(r.db, id), id)
        /\ \A p \in SingleUserUpdates :
            LET r == update_user(users_db, id, p) IN Fresh(r, get_user(r.db, id), id)
    /\ \A id \in Keys(orders_db) :
        /\ delete_order(orders_db, id).status = HTTP_200_OK
        /\ get_order(delete_order(orders_db, id).db, id).status = HTTP_404_NOT_FOUND
        /\ \A p \in ValidOrderCreates :
            LET r == replace_order(users_db, orders_db, id, p)
            IN Fresh(r, get_order(r.db, id), id)
        /\ \A p \in SingleOrderUpdates :
            LET r == update_order(orders_db, id, p) IN Fresh(r, get_order(r.db, id), id)
    /\ \A p \in ValidUserCreates :
        LET r == create_user(users_db, p)
        IN Fresh(r, get_user(r.db, next_id(users_db)), next_id(users_db))
    /\ \A p \in ValidOrderCreates :
        LET r == create_order(users_db, orders_db, p)
        IN Fresh(r, get_order(r.db, next_id(orders_db)), next_id(orders_db))

\* user 3 was deleted and the GET /users/3 that followed was answered 404
C8_Witness ==
    /\ last = [op |-> "get_user", status |-> HTTP_404_NOT_FOUND]
    /\ Keys(users_db) = {1, 2}

----------------------------------------------------------------------------
(* C9 as stated: for all skip >= 0 and 1 <= limit <= 100, in every reachable *)
(* state, list(skip, limit) on users or orders returns exactly               *)
(* min(limit, max(0, store_size - skip)) records, the ones at positions      *)
(* skip, skip+1, ... of the store's iteration order; a skip at or beyond the *)
(* store size yields the empty list and no error.                            *)
PageInputs ==
    {q \in SkipInputs \X LimitInputs :
        /\ q[1] # Null /\ q[1][1] >= 0
        /\ q[2] # Null /\ q[2][1] >= 1 /\ q[2][1] <= 100}

PageSize(n, skip, limit) ==
    LET rest == IF n - skip > 0 THEN n - skip ELSE 0
    IN IF limit < rest THEN limit ELSE rest

IsPage(r, fields, db, skip, limit) ==
    /\ r.status = HTTP_200_OK
    /\ Len(r.body) = PageSize(Len(db), skip, limit)
    /\ \A i \in 1 .. Len(r.body) : r.body[i] = OutProject(fields, db[skip + i].val)
    /\ skip >= Len(db) => r.body = <<>>

C9_ListReturnsPage ==
    \A q \in PageInputs :
        /\ IsPage(list_users(users_db, q[1], q[2]), UserOutFields,
                  users_db, q[1][1], q[2][1])
        /\ IsPage(list_orders(orders_db, q[1], q[2]), OrderOutFields,
                  orders_db, q[1][1], q[2][1])

----------------------------------------------------------------------------
(* C10: a list request whose skip is negative, or whose limit is below 1 or  *)
(* above 100, is answered 422; it is never clamped to the nearest legal      *)
(* value and returns no records.                                             *)
C10_BadPageRejected ==
    \A skipQ \in SkipInputs, limitQ \in LimitInputs :
        LET bad == \/ (skipQ # Null /\ skipQ[1] < 0)
                   \/ (limitQ # Null /\ (limitQ[1] < 1 \/ limitQ[1] > 100))
            u == list_users(users_db, skipQ, limitQ)
            o == list_orders(orders_db, skipQ, limitQ)
        IN /\ bad => u.status = HTTP_422_UNPROCESSABLE /\ u.body = NoBody
           /\ bad => o.status = HTTP_422_UNPROCESSABLE /\ o.body = NoBody
           /\ ~bad => u.status # HTTP_422_UNPROCESSABLE /\ o.status # HTTP_422_UNPROCESSABLE

\* a GET /orders/ with skip = -1 was answered 422
C10_Witness ==
    /\ last = [op |-> "list_orders", status |-> HTTP_422_UNPROCESSABLE]
    /\ nops > 0


----------------------------------------------------------------------------
(* C11: deletion does not cascade.  A successful delete of user U leaves the *)
(* Orders store unchanged: every order with user_id = U that was there       *)
(* before the delete is answered by get_order as before (never 404), while   *)
(* list_by_user(U) now answers 404.                                          *)
C11_DeleteDoesNotCascade ==
    [][(last'.op = "delete_user" /\ last'.status = HTTP_200_OK) =>
          /\ orders_db' = orders_db
          /\ Cardinality(Keys(users_db) \ Keys(users_db')) = 1
          /\ \A U \in Keys(users_db) \ Keys(users_db') :
               /\ get_orders_by_user(users_db', orders_db', U).status = HTTP_404_NOT_FOUND
               /\ \A i \in DOMAIN orders_db :
                    orders_db[i].val.user_id = Val(U) =>
                      LET before == get_order(orders_db, orders_db[i].key)
                          after == get_order(orders_db', orders_db[i].key)
                      IN /\ after.status # HTTP_404_NOT_FOUND
                         /\ after.status = before.status
                         /\ after.body = before.body
                         /\ OutValid(OrderOutFields, orders_db[i].val) =>
                              after.body = orders_db[i].val]_vars

\* user 1 was deleted and its two seed orders are still answered by get_order
C11_Witness ==
    /\ last = [op |-> "delete_user", status |-> HTTP_200_OK]
    /\ 1 \notin Keys(users_db)
    /\ get_order(orders_db, 1).body = SeedOrders[1].val
    /\ get_order(orders_db, 2).body = SeedOrders[2].val


----------------------------------------------------------------------------
(* C12 as stated: list_by_user(user_id) answers 404 when user_id is not a    *)
(* key of the Users store; otherwise it returns exactly the orders of the    *)
(* Orders store whose user_id equals user_id, all of them and no others, in  *)
(* the Orders store's order, possibly the empty list.                        *)
C12_ListByUser ==
    \A U \in IdInputs :
        LET r == get_orders_by_user(users_db, orders_db, U)
            mine(e) == e.val.user_id = Val(U)
            expected == SelectSeq(orders_db, mine)
        IN IF U \notin Keys(users_db)
           THEN r.status = HTTP_404_NOT_FOUND
           ELSE /\ r.status = HTTP_200_OK
                /\ Len(r.body) = Len(expected)
                /\ \A i \in DOMAIN expected : r.body[i] = expected[i].val


----------------------------------------------------------------------------
(* C13: a replace(id, X) on an existing id (for an order: with X.user_id a   *)
(* present user) stores exactly the id plus the fields of X: the id is kept, *)
(* every other field takes X's value whatever it was before (a null          *)
(* included), the key set of the store is unchanged and every other record   *)
(* is unchanged.                                                             *)
C13_ReplaceStoresExactlyX ==
    /\ \A id \in Keys(users_db), p \in ValidUserCreates :
        LET r == replace_user(users_db, id, p)
            new == GetItem(r.db, id)
        IN /\ r.status = HTTP_200_OK
           /\ DOMAIN new = UserCreateFields \cup {"id"}
           /\ new.id = Val(id)
           /\ \A f \in UserCreateFields : new[f] = p[f]
           /\ Keys(r.db) = Keys(users_db)
           /\ OthersSame(users_db, r.db, id)
    /\ \A id \in Keys(orders_db), p \in ValidOrderCreates :
        p.user_id[1] \in Keys(users_db) =>
            LET r == replace_order(users_db, orders_db, id, p)
                new == GetItem(r.db, id)
            IN /\ r.status = HTTP_200_OK
               /\ DOMAIN new = OrderCreateFields \cup {"id"}
               /\ new.id = Val(id)
               /\ \A f \in OrderCreateFields : new[f] = p[f]
               /\ Keys(r.db) = Keys(orders_db)
               /\ OthersSame(orders_db, r.db, id)

\* PUT /users/1 with Diana's body was answered 200: record 1 is Diana with id 1
C13_Witness ==
    /\ last = [op |-> "replace_user", status |-> HTTP_200_OK]
    /\ users_db[1] = [key |-> 1, val |-> Merge(Diana, "id" :> Val(1))]
    /\ users_db[2] = SeedUsers[2]

----------------------------------------------------------------------------
(* C14: idempotence of replace.  For every existing id and schema-valid X,   *)
(* replace(id, X) applied twice in a row leaves the stores in the same state *)
(* and returns the same record as applied once.                              *)
C14_ReplaceIdempotent ==
    /\ \A id \in Keys(users_db), p \in ValidUserCreates :
        LET once == replace_user(users_db, id, p)
            twice == replace_user(once.db, id, p)
        IN twice = once
    /\ \A id \in Keys(orders_db), p \in ValidOrderCreates :
        LET once == replace_order(users_db, orders_db, id, p)
            twice == replace_order(users_db, once.db, id, p)
        IN twice = once

\* two PUT /users/3 with Diana's body in a row: the second was answered 200
\* and record 3 is Diana, the others as seeded
C14_Witness ==
    /\ last = [op |-> "replace_user", status |-> HTTP_200_OK]
    /\ nops = 2
    /\ users_db = [SeedUsers EXCEPT ![3].val = Merge(Diana, "id" :> Val(3))]


----------------------------------------------------------------------------
(* C15: validation runs before any handler logic.  A create, replace or      *)
(* patch whose body breaks a schema constraint is answered 422 and leaves    *)
(* both stores as they were, also when the target id is not in the store or  *)
(* the body's user_id references no user (the answer is then 422, not 404).  *)
InvalidUserCreates == UserCreateInputs \ ValidUserCreates
InvalidUserUpdates == UserUpdateInputs \ ValidUserUpdates
InvalidOrderCreates == OrderCreateInputs \ ValidOrderCreates
InvalidOrderUpdates == OrderUpdateInputs \ ValidOrderUpdates

Rejected(r, db) == r.status = HTTP_422_UNPROCESSABLE /\ r.db = db

C15_ValidationFirst ==
    /\ \A p \in InvalidUserCreates :
        /\ Rejected(create_user(users_db, p), users_db)
        /\ \A id \in TargetSteps : Rejected(replace_user(users_db, id, p), users_db)
    /\ \A p \in InvalidUserUpdates, id \in TargetSteps :
        Rejected(update_user(users_db, id, p), users_db)
    /\ \A p \in InvalidOrderCreates :
        /\ Rejected(create_order(users_db, orders_db, p), orders_db)
        /\ \A id \in TargetSteps :
            Rejected(replace_order(users_db, orders_db, id, p), orders_db)
    /\ \A p \in InvalidOrderUpdates, id \in TargetSteps :
        Rejected(update_order(orders_db, id, p), orders_db)

\* user 3 was deleted, then a PUT with an age of 120 was answered 422
C15_Witness ==
    /\ last = [op |-> "replace_user", status |-> HTTP_422_UNPROCESSABLE]
    /\ users_db = SubSeq(SeedUsers, 1, 2)
    /\ orders_db = SeedOrders

----------------------------------------------------------------------------
(* C16: PATCH on an order never changes that order's user_id, whatever the   *)
(* body holds (user_id is not a field of OrderUpdate): after any patch the   *)
(* order's user_id is its value before the patch.  The patch does not look   *)
(* at the Users store: it is never answered 404 for an order in the store,   *)
(* and succeeds on an order whose user has been deleted.                     *)
C16_PatchKeepsUserId ==
    \A id \in Keys(orders_db), p \in OrderUpdateInputs :
        LET r == update_order(orders_db, id, p)
        IN /\ GetItem(r.db, id).user_id = GetItem(orders_db, id).user_id
           /\ r.status # HTTP_404_NOT_FOUND
           /\ r = update_order(orders_db, id, Restrict(p, DOMAIN p \ {"user_id"}))
           /\ (UpdateValid(OrderUpdateFields, p) /\ OutValid(OrderOutFields, GetItem(r.db, id)))
                => r.status = HTTP_200_OK

\* user 1 was deleted, then PATCH /orders/1 {"quantity": 5} was answered 200:
\* order 1 still belongs to user 1
C16_Witness ==
    /\ last = [op |-> "update_order", status |-> HTTP_200_OK]
    /\ 1 \notin Keys(users_db)
    /\ GetItem(orders_db, 1).user_id = Val(1)
    /\ GetItem(orders_db, 1).quantity = Val(5)

----------------------------------------------------------------------------
(* C17: each order's user_id was a key of the Users store when the order was *)
(* last created or fully replaced.  The seed orders reference seed users,    *)
(* and in every step an order that is new in the store, or whose user_id has *)
(* changed, references a user that is in the Users store at that step; no    *)
(* other step checks the reference, so states with an order whose user_id is *)
(* not a key of the Users store are reached (after the user's deletion).     *)
C17_ReferenceCheckedAtWrite ==
    /\ \A i \in DOMAIN orders_db : orders_db[i].val.user_id[1] \in Keys(users_db)
    /\ [][\A j \in DOMAIN orders_db' :
            \/ \E i \in DOMAIN orders_db :
                /\ orders_db[i].key = orders_db'[j].key
                /\ orders_db[i].val.user_id = orders_db'[j].val.user_id
                /\ ~(last'.op = "replace_order" /\ last'.status = HTTP_200_OK
                     /\ orders_db[i] # orders_db'[j])
            \/ /\ last'.op \in {"create_order", "replace_order"}
               /\ orders_db'[j].val.user_id[1] \in Keys(users_db)
               /\ users_db' = users_db]_vars

\* user 1 was deleted: orders 1 and 2 reference a user that is not in the store
C17_Witness ==
    /\ last = [op |-> "delete_user", status |-> HTTP_200_OK]
    /\ \E i \in DOMAIN orders_db : orders_db[i].val.user_id[1] \notin Keys(users_db)
    /\ orders_db = SeedOrders


----------------------------------------------------------------------------
(* C18: next_id(store) is one more than the largest key in the store, or 1   *)
(* for an empty store.  It depends on the key set alone (two stores with the *)
(* same keys get the same id whatever they hold), its result is never a key  *)
(* of the store, and calling it leaves the store as it was: a create adds    *)
(* the one new entry to the store it found.                                  *)
SubStore(db, K) ==
    LET kept(e) == e.key \in K IN SelectSeq(db, kept)

NextIdOf(db) ==
    /\ next_id(db) \notin Keys(db)
    /\ IF Keys(db) = {}
       THEN next_id(db) = 1
       ELSE /\ next_id(db) - 1 \in Keys(db)
            /\ \A k \in Keys(db) : k < next_id(db)

C18_NextId ==
    /\ \A K \in SUBSET Keys(users_db) : NextIdOf(SubStore(users_db, K))
    /\ \A K \in SUBSET Keys(orders_db) : NextIdOf(SubStore(orders_db, K))
    /\ \A K \in SUBSET (Keys(users_db) \cap Keys(orders_db)) :
        next_id(SubStore(users_db, K)) = next_id(SubStore(orders_db, K))
    /\ \A p \in ValidUserCreates :
        LET r == create_user(users_db, p)
        IN /\ Len(r.db) = Len(users_db) + 1
           /\ SubSeq(r.db, 1, Len(users_db)) = users_db
           /\ r.db[Len(r.db)].key = next_id(users_db)

\* user 2 was deleted and a user created: the keys are 1, 3 and 4
C18_Witness ==
    /\ last = [op |-> "create_user", status |-> HTTP_201_CREATED]
    /\ Keys(users_db) = {1, 3, 4}
    /\ next_id(users_db) = 5
    /\ next_id(SubStore(users_db, {})) = 1

----------------------------------------------------------------------------
(* C19: after any sequence of create, replace, patch and delete operations,  *)
(* every record of the Users store conforms to the User data model: exactly  *)
(* the fields id, name, email, age, none null or missing, with id a positive *)
(* integer, name of 2 to 50 characters and age from 1 to 119.                *)
UserConforms(rec) ==
    /\ DOMAIN rec = UserOutFields
    /\ \A f \in UserOutFields : rec[f] # Null
    /\ rec.id[1] > 0
    /\ Len(rec.name[1]) >= 2 /\ Len(rec.name[1]) <= 50
    /\ rec.age[1] >= 1 /\ rec.age[1] <= 119

C19_UsersConform ==
    \A i \in DOMAIN users_db : UserConforms(users_db[i].val)


----------------------------------------------------------------------------
(* C20: in the students API, after create-student succeeds for a student id  *)
(* (the id was absent and the record was stored), get-student for that same  *)
(* id returns the created record, for every student id create-student        *)
(* accepts.                                                                  *)
ValidStudents == {p \in StudentInputs : StudentValid(p)}

C20_CreateThenGetStudent ==
    \A student_id \in StudentIdInputs, p \in ValidStudents :
        student_id \notin Keys(students) =>
            LET created == create_student(students, student_id, p)
                got == get_student(created.db, student_id)
            IN /\ created.status = HTTP_200_OK
               /\ created.body = Restrict(p, StudentFields)
               /\ got.status = HTTP_200_OK
               /\ got.body = created.body


----------------------------------------------------------------------------
(* C21: in the students API, create-student for an id that is in the store   *)
(* returns {"Error": "Student exists"} and leaves the store as it was (the   *)
(* record under that id is not overwritten); for an absent id it stores the  *)
(* payload under that id, leaves the other records alone, and returns it.    *)
C21_CreateStudent ==
    \A student_id \in StudentIdInputs, p \in ValidStudents :
        LET r == create_student(students, student_id, p)
        IN /\ r.status = HTTP_200_OK
           /\ IF student_id \in Keys(students)
              THEN r.body = StudentExists /\ r.db = students
              ELSE /\ r.body = Restrict(p, StudentFields)
                   /\ r.db = Append(students, [key |-> student_id, val |-> r.body])

\* POST /create-student/1 with a valid body was answered 200 (a body that
\* fails Student is answered 422) and the store still holds John alone
C21_Witness ==
    /\ last = [op |-> "create_student", status |-> HTTP_200_OK]
    /\ nops = 1
    /\ students = SeedStudents

----------------------------------------------------------------------------
(* C22: in the students API, update-student on an id in the store overwrites *)
(* the fields the payload holds and keeps the others, and the response is the*)
(* merged record; on an absent id it returns                                 *)
(* {"Error": "Student does not exist"}, creates no record and leaves the     *)
(* store as it was.                                                          *)
C22_UpdateStudent ==
    \A student_id \in StudentIdInputs, p \in UpdateStudentInputs :
        LET r == update_student(students, student_id, p)
        IN /\ r.status = HTTP_200_OK
           /\ IF student_id \notin Keys(students)
              THEN r.body = StudentDoesNotExist /\ r.db = students
              ELSE LET old == GetItem(students, student_id)
                       new == GetItem(r.db, student_id)
                   IN /\ r.body = new
                      /\ DOMAIN new = DOMAIN old
                      /\ \A f \in DOMAIN old :
                           new[f] = IF f \in DOMAIN p THEN p[f] ELSE old[f]
                      /\ OthersSame(students, r.db, student_id)

\* PUT /update-student/1 {"age": 18}: John is 18, name and class as seeded
C22_Witness ==
    /\ last = [op |-> "update_student", status |-> HTTP_200_OK]
    /\ students = <<[key |-> 1, val |-> [name |-> Val("John"), age |-> Val(18),
                                         class_name |-> Val("year 12")]]>>

----------------------------------------------------------------------------
(* C23: in the students API, delete-student on an id in the store removes    *)
(* exactly that record, and get-student for that id then returns             *)
(* {"Error": "Student does not exist"}; delete-student on an absent id       *)
(* returns the same error value and leaves the store as it was.              *)
C23_DeleteStudent ==
    \A student_id \in StudentIdInputs :
        LET r == delete_student(students, student_id)
            got == get_student(r.db, student_id)
            others(e) == e.key # student_id
        IN /\ r.status = HTTP_200_OK
           /\ IF student_id \notin Keys(students)
              THEN r.body = StudentDoesNotExist /\ r.db = students
              ELSE /\ r.db = SelectSeq(students, others)
                   /\ Len(r.db) = Len(students) - 1
                   /\ got.status = HTTP_200_OK
                   /\ got.body = StudentDoesNotExist


----------------------------------------------------------------------------
(* C24: with several create requests on the same store in flight at once, id *)
(* allocation and insertion are one atomic step of the handler.  Under every *)
(* interleaving, a successful create returns an id that is not a key of the  *)
(* store at the step it writes and appends its record, so it overwrites no   *)
(* record (in particular none stored by another create); and while no delete *)
(* has removed a record of that store, no two successful creates return the  *)
(* same id.                                                                  *)
Created(i, op) ==
    /\ inflight[i].op = op
    /\ inflight[i].pc = "done"
    /\ inflight[i].status = HTTP_201_CREATED

Deleted(op) ==
    \E i \in DOMAIN inflight :
        inflight[i].op = op /\ inflight[i].pc = "done" /\ inflight[i].status = HTTP_200_OK

DistinctCreatedIds(create, delete) ==
    ~Deleted(delete) =>
        \A i, j \in DOMAIN inflight :
            (i # j /\ Created(i, create) /\ Created(j, create)) =>
                inflight[i].rid # inflight[j].rid

\* request i got its 201 in this step: its record went to the end of db2 under
\* a key db did not hold
CreateAppends(i, db, db2) ==
    /\ inflight'[i].rid \notin Keys(db)
    /\ Len(db2) = Len(db) + 1
    /\ SubSeq(db2, 1, Len(db)) = db
    /\ db2[Len(db2)].key = inflight'[i].rid
    /\ db2[Len(db2)].val.id = Val(inflight'[i].rid)

C24_CreateIsAtomic ==
    /\ [](DistinctCreatedIds("create_user", "delete_user")
          /\ DistinctCreatedIds("create_order", "delete_order"))
    /\ [][\A i \in DOMAIN inflight :
            (inflight[i].pc # "done" /\ inflight'[i].pc = "done"
             /\ inflight'[i].status = HTTP_201_CREATED) =>
                IF inflight[i].op = "create_user"
                THEN CreateAppends(i, users_db, users_db')
                ELSE CreateAppends(i, orders_db, orders_db')]_vars

\* two creates of users were in flight together and the one that arrived
\* second was handled first: it got id 4, the other id 5
C24_Witness ==
    /\ Len(inflight) = 2
    /\ Created(1, "create_user") /\ Created(2, "create_user")
    /\ inflight[1].rid = 5 /\ inflight[2].rid = 4
    /\ Keys(users_db) = {1, 2, 3, 4, 5}


----------------------------------------------------------------------------
(* C25: with concurrent requests on the same id, the existence check and the *)
(* mutation of replace, patch and delete are one atomic step.  Under every   *)
(* interleaving a replace inserts no key (it never re-inserts an id another  *)
(* request deleted), a patch or delete that gets past its check acts on an   *)
(* id that is in the store at that step, and no operation fails other than   *)
(* with NotFound or ValidationError.                                         *)
Finishes(i) == inflight[i].pc # "done" /\ inflight'[i].pc = "done"

PastItsCheck(i) ==
    inflight'[i].status \notin {HTTP_404_NOT_FOUND, HTTP_422_UNPROCESSABLE}

ActsOnPresentId(i, prefix, db, db2) ==
    /\ inflight[i].op \in {prefix[1], prefix[2]} =>
        inflight[i].id \in Keys(db) /\ Keys(db2) = Keys(db)
    /\ inflight[i].op = prefix[3] =>
        inflight[i].id \in Keys(db) /\ Keys(db2) = Keys(db) \ {inflight[i].id}

C25_CheckAndMutate ==
    [][\A i \in DOMAIN inflight :
        (Finishes(i) /\ PastItsCheck(i)) =>
            /\ ActsOnPresentId(i, <<"replace_user", "update_user", "delete_user">>,
                               users_db, users_db')
            /\ ActsOnPresentId(i, <<"replace_order", "update_order", "delete_order">>,
                               orders_db, orders_db')]_vars

C25_OnlyNotFoundOrValidation ==
    \A i \in DOMAIN inflight :
        inflight[i].pc = "done" =>
            inflight[i].status \in {HTTP_200_OK, HTTP_201_CREATED,
                                    HTTP_404_NOT_FOUND, HTTP_422_UNPROCESSABLE}

C25_ExistenceCheckIsAtomic == C25_CheckAndMutate /\ []C25_OnlyNotFoundOrValidation


----------------------------------------------------------------------------
(* C26 as stated: a create assigns an id that a delete has freed only if the *)
(* id was the largest key of the store when it was deleted and no larger id  *)
(* has been assigned in that store since.                                    *)
ReusedOnlyIfWasMax(F, new_id) ==
    \A e \in F : e.id = new_id => e.was_max /\ ~e.higher

C26_ReuseOnlyOfMax ==
    /\ \A p \in ValidUserCreates :
        ReusedOnlyIfWasMax(freed.users, create_user(users_db, p).body.id[1])
    /\ \A p \in ValidOrderCreates :
        LET r == create_order(users_db, orders_db, p)
        IN r.status = HTTP_201_CREATED =>
             ReusedOnlyIfWasMax(freed.orders, r.body.id[1])

(* C26 amended: a create assigns an id that a delete has freed only if, at   *)
(* the create, every key of the store is smaller than that id (the id and    *)
(* every larger id ever assigned have been deleted); a freed id below a key  *)
(* that is present is never assigned.  The id need not have been the largest *)
(* key when it was deleted.                                                  *)
ReusedOnlyAboveKeys(F, db, new_id) ==
    /\ \A e \in F : e.id = new_id => \A k \in Keys(db) : k < e.id
    /\ \A e \in F : (\E k \in Keys(db) : k > e.id) => new_id # e.id

C26_ReuseOnlyAboveKeys ==
    /\ \A e \in freed.users : e.id \notin Keys(users_db)
    /\ \A e \in freed.orders : e.id \notin Keys(orders_db)
    /\ \A p \in ValidUserCreates :
        ReusedOnlyAboveKeys(freed.users, users_db, create_user(users_db, p).body.id[1])
    /\ \A p \in ValidOrderCreates :
        LET r == create_order(users_db, orders_db, p)
        IN r.status = HTTP_201_CREATED =>
             ReusedOnlyAboveKeys(freed.orders, orders_db, r.body.id[1])

\* user 2 was deleted while user 3 was in the store, then user 3 was deleted:
\* the next create_user gets the id 2
C26_Witness ==
    /\ last = [op |-> "delete_user", status |-> HTTP_200_OK]
    /\ [id |-> 2, was_max |-> FALSE, higher |-> FALSE] \in freed.users
    /\ Keys(users_db) = {1}
    /\ create_user(users_db, Diana).body.id = Val(2)


----------------------------------------------------------------------------
(* C27: right after create_user returns a new user with id N,                *)
(* list_by_user(N) returns the empty list: orders orphaned by the deletion   *)
(* of an earlier user are never attributed to a user created later.          *)
C27_NewUserHasNoOrders ==
    \A p \in ValidUserCreates :
        LET created == create_user(users_db, p)
            N == created.body.id[1]
            listed == get_orders_by_user(created.db, orders_db, N)
        IN /\ created.status = HTTP_201_CREATED
           /\ listed.status = HTTP_200_OK
           /\ listed.body = <<>>


----------------------------------------------------------------------------
(* C28: in every reachable state of the Users and Orders stores, the record  *)
(* stored under key k has its id field equal to k, and k is a positive       *)
(* integer; no create, replace, patch or delete produces a record whose id   *)
(* differs from the key it is stored under.                                  *)
IdsMatchKeys(db) == \A i \in DOMAIN db : db[i].key > 0 /\ db[i].val.id = Val(db[i].key)

\* PATCH bodies that carry an id key, and the valid one-key bodies
IdUserUpdates == {p \in UserUpdateInputs : "id" \in DOMAIN p} \cup SingleUserUpdates
IdOrderUpdates == {p \in OrderUpdateInputs : "id" \in DOMAIN p} \cup SingleOrderUpdates

C28_IdEqualsKey ==
    /\ IdsMatchKeys(users_db)
    /\ IdsMatchKeys(orders_db)
    /\ \A p \in ValidUserCreates : IdsMatchKeys(create_user(users_db, p).db)
    /\ \A p \in ValidOrderCreates : IdsMatchKeys(create_order(users_db, orders_db, p).db)
    /\ \A id \in TargetSteps :
        /\ \A p \in ValidUserCreates : IdsMatchKeys(replace_user(users_db, id, p).db)
        /\ \A p \in IdUserUpdates : IdsMatchKeys(update_user(users_db, id, p).db)
        /\ \A p \in ValidOrderCreates :
            IdsMatchKeys(replace_order(users_db, orders_db, id, p).db)
        /\ \A p \in IdOrderUpdates : IdsMatchKeys(update_order(orders_db, id, p).db)
        /\ IdsMatchKeys(delete_user(users_db, id).db)
        /\ IdsMatchKeys(delete_order(orders_db, id).db)

\* user 3 was deleted and PUT /users/1 with Diana's body was answered 200:
\* the record under 1 has id 1
C28_Witness ==
    /\ last = [op |-> "replace_user", status |-> HTTP_200_OK]
    /\ Keys(users_db) = {1, 2}
    /\ GetItem(users_db, 1) = Merge(Diana, "id" :> Val(1))

----------------------------------------------------------------------------
(* C29: in every reachable state the iteration (insertion) order of each     *)
(* store is strictly ascending by id: create appends the new record at the   *)
(* end under an id larger than every key, replace and patch keep the         *)
(* record's position, delete removes one entry without reordering the rest;  *)
(* so the records a list(0, limit) returns are in increasing id order.       *)
Ascending(db) == \A i, j \in DOMAIN db : i < j => db[i].key < db[j].key

SamePositions(db, db2) ==
    Len(db2) = Len(db) /\ \A i \in DOMAIN db : db2[i].key = db[i].key

ListedAscending(r) ==
    r.status = HTTP_200_OK =>
        \A i, j \in DOMAIN r.body : i < j => r.body[i].id[1] < r.body[j].id[1]

C29_AscendingOrder ==
    /\ Ascending(users_db) /\ Ascending(orders_db)
    /\ \A p \in ValidUserCreates :
        LET r == create_user(users_db, p)
        IN r.db = Append(users_db, r.db[Len(r.db)]) /\ Ascending(r.db)
    /\ \A p \in ValidOrderCreates :
        LET r == create_order(users_db, orders_db, p)
        IN r.status = HTTP_201_CREATED =>
             r.db = Append(orders_db, r.db[Len(r.db)]) /\ Ascending(r.db)
    /\ \A id \in Keys(users_db) :
        /\ SamePositions(users_db, replace_user(users_db, id, Diana).db)
        /\ \A p \in SingleUserUpdates :
             SamePositions(users_db, update_user(users_db, id, p).db)
        /\ LET others(e) == e.key # id
           IN delete_user(users_db, id).db = SelectSeq(users_db, others)
    /\ \A id \in Keys(orders_db) :
        /\ \A p \in {OrderFor(1), OrderFor(3)} :
             SamePositions(orders_db, replace_order(users_db, orders_db, id, p).db)
        /\ \A p \in SingleOrderUpdates :
             SamePositions(orders_db, update_order(orders_db, id, p).db)
        /\ LET others(e) == e.key # id
           IN delete_order(orders_db, id).db = SelectSeq(orders_db, others)
    /\ \A limitQ \in LimitInputs :
        /\ ListedAscending(list_users(users_db, Val(0), limitQ))
        /\ ListedAscending(list_orders(orders_db, Val(0), limitQ))

\* user 2 was deleted and a user created: the store iterates 1, 3, 4
C29_Witness ==
    /\ last = [op |-> "create_user", status |-> HTTP_201_CREATED]
    /\ Len(users_db) = 3
    /\ users_db[1].key = 1 /\ users_db[2].key = 3 /\ users_db[3].key = 4


----------------------------------------------------------------------------
(* C30: the read operations (list, get, list_by_user) leave both stores as   *)
(* they were; every Users operation (create, replace, patch, delete) leaves  *)
(* the Orders store as it was, and every Orders operation leaves the Users   *)
(* store as it was, although create_order, replace_order and list_by_user    *)
(* read the Users store.                                                     *)
ReadOps == {"list_users", "get_user", "list_orders", "get_order", "get_orders_by_user"}
UsersOps == {"create_user", "replace_user", "update_user", "delete_user"}
OrdersOps == {"create_order", "replace_order", "update_order", "delete_order"}

C30_StoresAreSeparate ==
    [][/\ last'.op \in ReadOps => users_db' = users_db /\ orders_db' = orders_db
       /\ last'.op \in UsersOps => orders_db' = orders_db
       /\ last'.op \in OrdersOps => users_db' = users_db]_vars

\* user 1 was deleted, then GET /orders/user/1 was answered 404: the orders of
\* user 1 are still in the Orders store
C30_Witness ==
    /\ last = [op |-> "get_orders_by_user", status |-> HTTP_404_NOT_FOUND]
    /\ 1 \notin Keys(users_db)
    /\ orders_db = SeedOrders

====
